---- MODULE Spec2Model ----
(***************************************************************************)
(* Model of VietVoice-TTS: the text normaliser and chunker                 *)
(* (vietvoicetts/core/text_processor.py), the HTTP layer's shared engine   *)
(* (vietvoicetts/api/tts_engine.py, vietvoicetts/api/app.py), the client   *)
(* facade (vietvoicetts/client.py), the request schema                     *)
(* (vietvoicetts/api/schemas.py), the health and download endpoints, the   *)
(* per-chunk synthesis loop, the audio reassembler, the life of one        *)
(* TTSApi from its construction to its release, and the command line       *)
(* (vietvoicetts/cli.py).                                                  *)
(*                                                                         *)
(* A text is a sequence of one-character strings.                          *)
(***************************************************************************)
EXTENDS Integers, Sequences, FiniteSets, TLC

VARIABLES
    text,        \* the argument of clean_text / chunk_text
    max_chars,   \* the argument max_chars of chunk_text
    cleaned,     \* clean_text(text)
    recleaned,   \* clean_text(clean_text(text))
    chunks,      \* the list chunk_text returned
    tpc,         \* which text operation has run
    \* vietvoicetts/api/tts_engine.py, api/app.py, client.py
    _engine,             \* the module's singleton TTSApi: None or an instance
    engine_ctor_calls,   \* how often TTSApi(...) was called by get_tts_engine
    engine_ctor_failed,  \* how many of these calls raised
    returned,            \* the instances get_tts_engine has returned
    speed,               \* engine.config.speed (the shared _engine_config)
    api_engine,          \* TTSApi._engine: None or a TTSEngine instance
    core_ctor_calls,     \* how often TTSEngine(...) was called
    tmp_dir,             \* the files in settings.TMP_DIR_PATH
    _file_cache,         \* the keys of app._file_cache
    rpc,                 \* where each request is
    kind,                \* the endpoint each request came to
    req_speed,           \* data.speed of each request
    original_speed,      \* the local original_speed of synthesize_async
    speed_before,        \* engine.config.speed when the request began
    calls,               \* engine.synthesize invocations made for the request
    outcome,             \* how the request's synthesis ended, if it has
    pred,                \* the requests that had ended when this one began
    \* the synthesis loop of the core engine
    text_chunks,         \* the text chunks of one synthesize call
    ci,                  \* the index of the chunk being processed
    stage,               \* the stage that chunk is in
    audio_chunks,        \* the audio chunks collected so far
    events,              \* the stage calls made, in order
    handed,              \* what the reassembler was given
    \* threads that share one TTSApi (client.py)
    cpc,                 \* where each thread is in its call
    built,               \* the TTSEngine instances built since the last cleanup
    engine_used,         \* the instance TTSApi.engine returned to each thread
    \* one HTTP synthesis request from its body to the engine call
    data,                \* the fields of the request body
    req_state,           \* received, rejected, handling or synthesized
    resp_status,         \* the HTTP status of the response, 0 before it
    engine_args,         \* the arguments engine.synthesize was called with
    engine_invocations,  \* how often engine.synthesize was called
    \* the other endpoints of api/app.py
    health,              \* the health request: none, pending or answered
    health_seen,         \* the syntheses that were running when it arrived
    dl,                  \* the last download request: its id and status
    dl_n,                \* how many download requests were answered
    \* the audio reassembler (AudioProcessor)
    wave_chunks,         \* the audio chunks given to the concatenation
    crossfade_samples,   \* the crossfade window in samples
    waveform,            \* the concatenated waveform
    samples,             \* the array given to fix_clipped_audio
    repaired,            \* the array it returned
    apc,                 \* which audio operation has run
    \* one TTSApi from its construction to its release (client.py)
    in_with,             \* inside a with-block of the TTSApi
    cleanup_calls,       \* how often cleanup() was called on each TTSEngine instance
    synth_log,           \* each synthesis: the instance and its cleanup calls until then
    last_op,             \* the last TTSApi operation made
    life_ops,            \* how many operations were made
    \* the command line (cli.py)
    args,                \* the parsed arguments of a non-interactive run
    settings,            \* the settings dictionary of interactive mode
    cli_pc,              \* where the command is: start, menu, left, rejected, exit_ok, exit_err
    cli_synth,           \* the synthesize_to_file calls made: references given and outcome
    cli_api_ctor,        \* how often the command constructed a TTSApi
    last_menu,           \* the last pass of the menu loop: choice, confirmation, result
    menu_steps,          \* how many passes of the menu loop were made
    \* the age of the files in TMP_DIR_PATH (api/app.py, cleanup_old_files)
    clock,               \* time.time(), in ticks
    mtime,               \* os.path.getmtime of each output file
    cleanup_pending,     \* cleanup_old_files is scheduled as a background task
    removed              \* the files cleanup_old_files removed, each with its age

textVars == <<text, max_chars, cleaned, recleaned, chunks, tpc>>

apiVars == <<_engine, engine_ctor_calls, engine_ctor_failed, returned, speed,
             api_engine, core_ctor_calls, tmp_dir, _file_cache, rpc, kind,
             req_speed, original_speed, speed_before, calls, outcome, pred>>

synthVars == <<text_chunks, ci, stage, audio_chunks, events, handed>>

clientVars == <<cpc, built, engine_used>>

reqVars == <<data, req_state, resp_status, engine_args, engine_invocations>>

srvVars == <<health, health_seen, dl, dl_n>>

audioVars == <<wave_chunks, crossfade_samples, waveform, samples, repaired, apc>>

lifeVars == <<in_with, cleanup_calls, synth_log, last_op, life_ops>>

cliVars == <<args, settings, cli_pc, cli_synth, cli_api_ctor, last_menu, menu_steps>>

expiryVars == <<clock, mtime, cleanup_pending, removed>>

\* What the actions of one part of the program leave alone.
nonTextVars == <<apiVars, synthVars, clientVars, reqVars, srvVars, audioVars, lifeVars, cliVars, expiryVars>>

nonApiClientVars == <<textVars, synthVars, reqVars, srvVars, audioVars, lifeVars, cliVars, expiryVars>>

nonApiVars == <<nonApiClientVars, clientVars>>

nonSynthVars == <<textVars, apiVars, clientVars, reqVars, srvVars, audioVars, lifeVars, cliVars, expiryVars>>

nonClientVars == <<nonApiClientVars, apiVars>>

nonReqVars == <<textVars, apiVars, synthVars, clientVars, srvVars, audioVars, lifeVars, cliVars, expiryVars>>

nonSrvVars == <<textVars, synthVars, clientVars, reqVars, audioVars, lifeVars, cliVars, expiryVars>>

nonAudioVars == <<textVars, apiVars, synthVars, clientVars, reqVars, srvVars, lifeVars, cliVars, expiryVars>>

\* The module-level state of api/tts_engine.py and api/app.py: apiVars
\* without the fields of the TTSApi instance.
apiModuleVars == <<_engine, engine_ctor_calls, engine_ctor_failed, returned, speed,
                   tmp_dir, _file_cache, rpc, kind, req_speed, original_speed,
                   speed_before, calls, outcome, pred>>

nonLifeVars == <<textVars, apiModuleVars, synthVars, clientVars, reqVars, srvVars,
                 audioVars, cliVars, expiryVars>>

\* apiVars without the directory and the file cache.
apiEngineVars == <<_engine, engine_ctor_calls, engine_ctor_failed, returned, speed,
                   api_engine, core_ctor_calls, rpc, kind, req_speed, original_speed,
                   speed_before, calls, outcome, pred>>

nonExpiryVars == <<textVars, apiEngineVars, synthVars, clientVars, reqVars, srvVars,
                   audioVars, lifeVars, cliVars>>

nonCliVars == <<textVars, apiVars, synthVars, clientVars, reqVars, srvVars,
                audioVars, lifeVars, expiryVars>>

vars == <<textVars, apiVars, synthVars, clientVars, reqVars, srvVars, audioVars, lifeVars, cliVars, expiryVars>>

----------------------------------------------------------------------------
(* Bounds *)

MaxRawLen == 5
MaxTextLen == 6
MaxBudget == 4
MaxLongLen == 7
MaxLongBudget == 7
NumReq == 2
NumThreads == 2
MaxCoreCtor == 3
MaxSampleIteration == 1
NumSrvReq == 1
MaxWaveLen == 3
MaxCrossfade == 2
MaxDownloads == 2
MaxChunks == 3
MaxLifeOps == 6
MaxMenuSteps == 4
MaxClock == 4
LifespanTicks == 2

\* ModelConfig.speed as constructed, in tenths
DefaultSpeed == 9

----------------------------------------------------------------------------
(* Characters *)

\* Characters Python's str.strip()/str.split()/regex \s treat as whitespace.
Whitespace == {" ", "\n"}

\* A representative of each class of character clean_text distinguishes:
\* a letter, the space, the newline, a character outside the alphabet,
\* and the punctuation it rewrites or tests for.
RawAlphabet == {"a", " ", "\n", "#", ".", ",", ";", "?"}

\* Representatives of all_valid_chars (letters, digits, Vietnamese letters
\* and the punctuation " .,!?'@$%&/:;()").
all_valid_chars == {"a", " ", ".", ",", "!", "?", "'", "@", "$", "%", "&", "/", ":", ";", "(", ")"}

\* The characters chunk_text distinguishes: a letter, whitespace, a sentence
\* end and the comma.
ChunkAlphabet == {"a", " ", "\n", ".", ","}

SentenceEnd == {".", "!", "?"}

----------------------------------------------------------------------------
(* Python string primitives *)

RECURSIVE lstrip(_)
lstrip(s) ==
    IF s # <<>> /\ Head(s) \in Whitespace THEN lstrip(Tail(s)) ELSE s

RECURSIVE rstrip(_)
rstrip(s) ==
    IF s # <<>> /\ s[Len(s)] \in Whitespace
    THEN rstrip(SubSeq(s, 1, Len(s) - 1))
    ELSE s

\* str.strip()
strip(s) == rstrip(lstrip(s))

\* str.endswith(c) for a single character
endswith(s, cs) == s # <<>> /\ s[Len(s)] \in cs

\* str.split(c) for a single-character separator: every occurrence splits,
\* empty pieces are kept.
RECURSIVE split_char(_, _, _)
split_char(s, c, cur) ==
    IF s = <<>> THEN <<cur>>
    ELSE IF Head(s) = c THEN <<cur>> \o split_char(Tail(s), c, <<>>)
    ELSE split_char(Tail(s), c, Append(cur, Head(s)))

\* str.split(", "): leftmost non-overlapping occurrences of the two
\* characters comma, space; the separator is not part of any piece.
RECURSIVE split_comma_space(_, _)
split_comma_space(s, cur) ==
    IF s = <<>> THEN <<cur>>
    ELSE IF Len(s) >= 2 /\ s[1] = "," /\ s[2] = " "
    THEN <<cur>> \o split_comma_space(SubSeq(s, 3, Len(s)), <<>>)
    ELSE split_comma_space(Tail(s), Append(cur, Head(s)))

\* str.split() with no argument: the maximal runs of non-whitespace.
RECURSIVE split_ws(_, _)
split_ws(s, cur) ==
    IF s = <<>> THEN (IF cur = <<>> THEN <<>> ELSE <<cur>>)
    ELSE IF Head(s) \in Whitespace
    THEN (IF cur = <<>> THEN <<>> ELSE <<cur>>) \o split_ws(Tail(s), <<>>)
    ELSE split_ws(Tail(s), Append(cur, Head(s)))

words(s) == split_ws(s, <<>>)

\* sep.join(parts)
RECURSIVE join(_, _)
join(parts, sep) ==
    IF parts = <<>> THEN <<>>
    ELSE IF Len(parts) = 1 THEN parts[1]
    ELSE parts[1] \o sep \o join(Tail(parts), sep)

\* re.sub(c+, c, s) for the characters of cs: a run of characters of cs
\* becomes the single character by.
RECURSIVE collapse(_, _, _)
collapse(s, cs, by) ==
    IF s = <<>> THEN <<>>
    ELSE IF Head(s) \in cs
    THEN IF Len(s) >= 2 /\ s[2] \in cs
         THEN collapse(Tail(s), cs, by)
         ELSE <<by>> \o collapse(Tail(s), cs, by)
    ELSE <<Head(s)>> \o collapse(Tail(s), cs, by)

\* re.sub of a one-character class: each character of cs becomes by.
replace_chars(s, cs, by) ==
    [i \in 1..Len(s) |-> IF s[i] \in cs THEN by ELSE s[i]]

\* re.split(r'(?<=[.!?]) +', s): a separator is a maximal run of spaces
\* that directly follows a sentence end; prev is the character before s.
RECURSIVE split_sentences(_, _, _)
split_sentences(s, prev, cur) ==
    IF s = <<>> THEN <<cur>>
    ELSE IF Head(s) = " " /\ prev \in SentenceEnd
    THEN LET rest == Tail(s)
             RECURSIVE skip(_)
             skip(r) == IF r # <<>> /\ Head(r) = " " THEN skip(Tail(r)) ELSE r
         IN <<cur>> \o split_sentences(skip(rest), " ", <<>>)
    ELSE split_sentences(Tail(s), Head(s), Append(cur, Head(s)))

----------------------------------------------------------------------------
(* TextProcessor.clean_text *)

\* The newline branch: the non-blank lines, stripped, each given a final
\* period unless it ends with one, joined by single spaces.
paragraph_join(t) ==
    LET lines == split_char(t, "\n", <<>>)
        kept == SelectSeq([i \in 1..Len(lines) |-> strip(lines[i])],
                          LAMBDA c : c # <<>>)
        dotted == [i \in 1..Len(kept) |->
                     IF ~endswith(strip(kept[i]), {"."})
                     THEN strip(kept[i]) \o <<".">>
                     ELSE kept[i]]
    IN join(dotted, <<" ">>)

\* re.sub(f"[^{all_valid_chars}]", " ", text)
replace_invalid(t) ==
    [i \in 1..Len(t) |-> IF t[i] \in all_valid_chars THEN t[i] ELSE " "]

\* Mutant: the period is appended only to a non-empty text.
ensure_terminal_nonempty(t) ==
    IF t # <<>> /\ ~endswith(t, {".", "?", "!", ","}) THEN t \o <<".">> ELSE t

\* Append . at the end of the text if it doesn't end with . or ? or ! or ,
ensure_terminal(t) ==
    IF ~endswith(t, {".", "?", "!", ","}) THEN t \o <<".">> ELSE t

\* Mutant: runs of commas are collapsed before ; : ( ) become commas.
clean_text_commas_first(t) ==
    LET t1 == IF \E i \in 1..Len(t) : t[i] = "\n" THEN paragraph_join(t) ELSE t
        t2 == replace_invalid(t1)
        t3 == strip(t2)
        t4 == collapse(t3, {"."}, ".")
        t5 == collapse(t4, {","}, ",")
        t6 == replace_chars(t5, {";", ":", "(", ")"}, ",")
        t7 == collapse(t6, Whitespace, " ")
    IN ensure_terminal(t7)

clean_text(t) ==
    LET t1 == IF \E i \in 1..Len(t) : t[i] = "\n" THEN paragraph_join(t) ELSE t
        t2 == replace_invalid(t1)
        t3 == strip(t2)
        t4 == replace_chars(t3, {";", ":", "(", ")"}, ",")
        t5 == collapse(t4, {"."}, ".")
        t6 == collapse(t5, {","}, ",")
        t7 == collapse(t6, Whitespace, " ")
    IN ensure_terminal(t7)

----------------------------------------------------------------------------
(* TextProcessor.chunk_text *)

\* Mutant: the joining space is left out of the length test.
RECURSIVE pack_words_nospace(_, _, _, _)
pack_words_nospace(ws, current_part, out, m) ==
    IF ws = <<>>
    THEN IF strip(current_part) # <<>> THEN Append(out, strip(current_part)) ELSE out
    ELSE LET word == Head(ws) IN
         IF current_part # <<>> /\ Len(current_part \o word) > m
         THEN pack_words_nospace(Tail(ws), word,
                         IF strip(current_part) # <<>>
                         THEN Append(out, strip(current_part)) ELSE out, m)
         ELSE pack_words_nospace(Tail(ws),
                         IF current_part # <<>>
                         THEN current_part \o <<" ">> \o word ELSE word,
                         out, m)

\* The word loop over a part longer than max_chars: a word that would take
\* current_part past max_chars closes it and starts the next one.
RECURSIVE pack_words(_, _, _, _)
pack_words(ws, current_part, out, m) ==
    IF ws = <<>>
    THEN IF strip(current_part) # <<>> THEN Append(out, strip(current_part)) ELSE out
    ELSE LET word == Head(ws) IN
         IF current_part # <<>> /\ Len(current_part \o <<" ">> \o word) > m
         THEN pack_words(Tail(ws), word,
                         IF strip(current_part) # <<>>
                         THEN Append(out, strip(current_part)) ELSE out, m)
         ELSE pack_words(Tail(ws),
                         IF current_part # <<>>
                         THEN current_part \o <<" ">> \o word ELSE word,
                         out, m)

\* Mutant: a part longer than max_chars is left out.
split_part_drop_long(part0, m) ==
    LET part == strip(part0) IN
    IF part # <<>> /\ Len(part) <= m THEN <<part>> ELSE <<>>

\* One comma-delimited part of a long sentence.
split_part(part0, m) ==
    LET part == strip(part0) IN
    IF part = <<>> THEN <<>>
    ELSE IF Len(part) <= m THEN <<part>>
    ELSE pack_words(words(part), <<>>, <<>>, m)

RECURSIVE split_parts(_, _)
split_parts(parts, m) ==
    IF parts = <<>> THEN <<>>
    ELSE split_part(Head(parts), m) \o split_parts(Tail(parts), m)

\* Mutant: a sentence is split at ", " whether or not it fits.
split_sentence_always(s0, m) ==
    LET s == strip(s0) IN
    IF s = <<>> THEN <<>>
    ELSE split_parts(split_comma_space(s, <<>>), m)

\* One sentence: kept whole when it fits, else split at ", ".
split_sentence(s0, m) ==
    LET s == strip(s0) IN
    IF s = <<>> THEN <<>>
    ELSE IF Len(s) <= m THEN <<s>>
    ELSE split_parts(split_comma_space(s, <<>>), m)

RECURSIVE split_all(_, _)
split_all(ss, m) ==
    IF ss = <<>> THEN <<>>
    ELSE split_sentence(Head(ss), m) \o split_all(Tail(ss), m)

\* The list `sentences` chunk_text builds from the text.
sentences_of(t, m) ==
    split_all(split_sentences(strip(t), "", <<>>), m)

\* Mutant: every sentence is closed as a chunk of its own.
pack_sentences_each_alone(ss, current_chunk, out, m) == out \o ss

\* Mutant: a chunk is closed as soon as the next sentence would fill it
\* to max_chars exactly.
RECURSIVE pack_sentences_eager(_, _, _, _)
pack_sentences_eager(ss, current_chunk, out, m) ==
    IF ss = <<>>
    THEN IF current_chunk # <<>> THEN Append(out, strip(current_chunk)) ELSE out
    ELSE LET sentence == Head(ss) IN
         IF current_chunk # <<>> /\ Len(current_chunk \o <<" ">> \o sentence) >= m
         THEN pack_sentences_eager(Tail(ss), sentence,
                                   Append(out, strip(current_chunk)), m)
         ELSE pack_sentences_eager(Tail(ss),
                                   IF current_chunk # <<>>
                                   THEN current_chunk \o <<" ">> \o sentence
                                   ELSE sentence,
                                   out, m)

\* The greedy packing of the sentences into chunks.
RECURSIVE pack_sentences(_, _, _, _)
pack_sentences(ss, current_chunk, out, m) ==
    IF ss = <<>>
    THEN IF current_chunk # <<>> THEN Append(out, strip(current_chunk)) ELSE out
    ELSE LET sentence == Head(ss) IN
         IF current_chunk # <<>> /\ Len(current_chunk \o <<" ">> \o sentence) > m
         THEN pack_sentences(Tail(ss), sentence, Append(out, strip(current_chunk)), m)
         ELSE pack_sentences(Tail(ss),
                             IF current_chunk # <<>>
                             THEN current_chunk \o <<" ">> \o sentence ELSE sentence,
                             out, m)

\* The post-pass: a chunk of fewer than 4 words is merged with the next
\* chunk, or (the last one) with the previous final chunk, when the merged
\* text fits max_chars.  i is 1-based.
RECURSIVE merge_short(_, _, _, _)
merge_short(cs, i, final_chunks, m) ==
    IF i > Len(cs) THEN final_chunks
    ELSE LET current == cs[i] IN
         IF Len(words(current)) < 4 /\ Len(cs) > 1
              /\ i < Len(cs)
              /\ Len(current \o <<" ">> \o cs[i + 1]) <= m
         THEN merge_short(cs, i + 2, Append(final_chunks, current \o <<" ">> \o cs[i + 1]), m)
         ELSE IF Len(words(current)) < 4 /\ Len(cs) > 1
                   /\ ~(i < Len(cs)) /\ i > 1 /\ final_chunks # <<>>
                   /\ Len(final_chunks[Len(final_chunks)] \o <<" ">> \o current) <= m
         THEN merge_short(cs, i + 1,
                          [final_chunks EXCEPT ![Len(final_chunks)] = @ \o <<" ">> \o current], m)
         ELSE merge_short(cs, i + 1, Append(final_chunks, current), m)

chunk_text(t, m) ==
    IF strip(t) = <<>> THEN <<>>
    ELSE LET sentences == sentences_of(t, m) IN
         IF sentences = <<>> THEN <<>>
         ELSE merge_short(pack_sentences(sentences, <<>>, <<>>, m), 1, <<>>, m)

----------------------------------------------------------------------------
(* Text inputs and the text operations as actions *)

None == 0

Requests == 1..NumReq

\* Request speeds in tenths, inside the schema's range [0.25, 2.0].
Speeds == {7, 15}

Kinds == {"stream", "file"}

\* The HTTP layer before any request: no engine, the configured speed, an
\* empty temporary directory and file cache.
ApiStart ==
    /\ _engine = None
    /\ engine_ctor_calls = 0
    /\ engine_ctor_failed = 0
    /\ returned = {}
    /\ speed = DefaultSpeed
    /\ api_engine = None
    /\ core_ctor_calls = 0
    /\ tmp_dir = {}
    /\ _file_cache = {}
    /\ rpc = [r \in Requests |-> "idle"]
    /\ kind = [r \in Requests |-> "stream"]
    /\ req_speed = [r \in Requests |-> DefaultSpeed]
    /\ original_speed = [r \in Requests |-> DefaultSpeed]
    /\ speed_before = [r \in Requests |-> DefaultSpeed]
    /\ calls = [r \in Requests |-> 0]
    /\ outcome = [r \in Requests |-> "none"]
    /\ pred = [r \in Requests |-> {}]

\* No synthesize call under way.
SynthStart ==
    /\ text_chunks = <<>>
    /\ ci = 0
    /\ stage = "idle"
    /\ audio_chunks = <<>>
    /\ events = <<>>
    /\ handed = <<>>

Threads == 1..NumThreads

\* No thread has called the shared TTSApi.
ClientStart ==
    /\ cpc = [t \in Threads |-> "idle"]
    /\ built = {}
    /\ engine_used = [t \in Threads |-> None]

\* No request body has arrived.
ReqStart ==
    /\ data = <<>>
    /\ req_state = "none"
    /\ resp_status = 0
    /\ engine_args = <<>>
    /\ engine_invocations = 0

\* No health or download request has arrived.
SrvStart ==
    /\ health = "none"
    /\ health_seen = {}
    /\ dl = <<>>
    /\ dl_n = 0

\* No audio operation under way.
AudioStart ==
    /\ wave_chunks = <<>>
    /\ crossfade_samples = 0
    /\ waveform = <<>>
    /\ samples = <<>>
    /\ repaired = <<>>
    /\ apc = "none"

\* A TTSApi as constructed (client.py, __init__): no operation made yet.
LifeStart ==
    /\ in_with = FALSE
    /\ cleanup_calls = [e \in 1..MaxCoreCtor |-> 0]
    /\ synth_log = {}
    /\ last_op = "none"
    /\ life_ops = 0

\* The server has started: no output file was written, no cleanup is due.
ExpiryStart ==
    /\ clock = 0
    /\ mtime = [r \in 1..NumReq |-> 0]
    /\ cleanup_pending = FALSE
    /\ removed = {}

\* An absent value: an option not given, a setting that is None.
Absent == <<>>

\* The command has been started and has read nothing.
CliStart ==
    /\ args = [text |-> Absent, output |-> Absent,
               reference_audio |-> Absent, reference_text |-> Absent]
    /\ settings = [gender |-> Absent, speed |-> 0,
                   reference_audio |-> Absent, reference_text |-> Absent]
    /\ cli_pc = "start"
    /\ cli_synth = {}
    /\ cli_api_ctor = 0
    /\ last_menu = [choice |-> <<>>, confirm |-> <<>>, result |-> "none"]
    /\ menu_steps = 0

\* No text operation under way.
TextStart ==
    /\ text = <<>>
    /\ max_chars = 0
    /\ cleaned = <<>>
    /\ recleaned = <<>>
    /\ chunks = <<>>
    /\ tpc = "none"

Texts(A, n) == UNION {[1..k -> A] : k \in 0..n}

Budgets == 0..MaxBudget

Terminal == {".", "?", "!", ","}

\* A text given to clean_text: any string over RawAlphabet.
InitClean ==
    /\ text \in Texts(RawAlphabet, MaxRawLen)
    /\ max_chars = 0
    /\ cleaned = <<>>
    /\ recleaned = <<>>
    /\ chunks = <<>>
    /\ tpc = "raw"
    /\ ApiStart
    /\ SynthStart
    /\ ClientStart
    /\ ReqStart
    /\ SrvStart
    /\ AudioStart
    /\ LifeStart
    /\ CliStart
    /\ ExpiryStart

\* A text given to the clean-then-chunk pipeline, or to chunk_text as is.
InitChunk ==
    /\ text \in Texts(ChunkAlphabet, MaxTextLen)
    /\ max_chars = 0
    /\ cleaned = <<>>
    /\ recleaned = <<>>
    /\ chunks = <<>>
    /\ tpc = "input"
    /\ ApiStart
    /\ SynthStart
    /\ ClientStart
    /\ ReqStart
    /\ SrvStart
    /\ AudioStart
    /\ LifeStart
    /\ CliStart
    /\ ExpiryStart

\* cleaned = clean_text(text)
Clean ==
    /\ tpc \in {"raw", "input"}
    /\ cleaned' = clean_text(text)
    /\ tpc' = IF tpc = "raw" THEN "cleaned" ELSE "normalised"
    /\ UNCHANGED <<text, max_chars, recleaned, chunks>>
    /\ UNCHANGED nonTextVars

\* recleaned = clean_text(cleaned)
CleanAgain ==
    /\ tpc = "cleaned"
    /\ recleaned' = clean_text(cleaned)
    /\ tpc' = "recleaned"
    /\ UNCHANGED <<text, max_chars, cleaned, chunks>>
    /\ UNCHANGED nonTextVars

\* chunks = chunk_text(text, m) on a text that was not cleaned
ChunkRaw ==
    /\ tpc = "input"
    /\ \E m \in Budgets :
         /\ max_chars' = m
         /\ chunks' = chunk_text(text, m)
    /\ tpc' = "chunked_raw"
    /\ UNCHANGED <<text, cleaned, recleaned>>
    /\ UNCHANGED nonTextVars

\* chunks = chunk_text(cleaned, m)
ChunkCleaned ==
    /\ tpc = "normalised"
    /\ \E m \in Budgets :
         /\ max_chars' = m
         /\ chunks' = chunk_text(cleaned, m)
    /\ tpc' = "chunked_clean"
    /\ UNCHANGED <<text, cleaned, recleaned>>
    /\ UNCHANGED nonTextVars

\* Longer texts over fewer characters, and larger budgets.
LongAlphabet == {"a", " ", ".", ","}

LongBudgets == 0..MaxLongBudget

InitChunkLong ==
    /\ text \in Texts(LongAlphabet, MaxLongLen)
    /\ max_chars = 0
    /\ cleaned = <<>>
    /\ recleaned = <<>>
    /\ chunks = <<>>
    /\ tpc = "input"
    /\ ApiStart
    /\ SynthStart
    /\ ClientStart
    /\ ReqStart
    /\ SrvStart
    /\ AudioStart
    /\ LifeStart
    /\ CliStart
    /\ ExpiryStart

\* chunks = chunk_text(text, m) on a text that was not cleaned
ChunkRawLong ==
    /\ tpc = "input"
    /\ \E m \in LongBudgets :
         /\ max_chars' = m
         /\ chunks' = chunk_text(text, m)
    /\ tpc' = "chunked_raw"
    /\ UNCHANGED <<text, cleaned, recleaned>>
    /\ UNCHANGED nonTextVars

\* chunks = chunk_text(cleaned, m)
ChunkCleanedLong ==
    /\ tpc = "normalised"
    /\ \E m \in LongBudgets :
         /\ max_chars' = m
         /\ chunks' = chunk_text(cleaned, m)
    /\ tpc' = "chunked_clean"
    /\ UNCHANGED <<text, cleaned, recleaned>>
    /\ UNCHANGED nonTextVars

NextChunkLong == Clean \/ ChunkRawLong \/ ChunkCleanedLong

SpecChunkLong == InitChunkLong /\ [][NextChunkLong]_vars

NextClean == Clean \/ CleanAgain

NextChunk == Clean \/ ChunkRaw \/ ChunkCleaned

SpecClean == InitClean /\ [][NextClean]_vars

SpecChunk == InitChunk /\ [][NextChunk]_vars

----------------------------------------------------------------------------
(* Claims about the text operations *)

\* The text chunk_text was given in the current state.
chunk_input == IF tpc = "chunked_clean" THEN cleaned ELSE text

Chunked == tpc \in {"chunked_raw", "chunked_clean"}

RECURSIVE all_words(_)
all_words(cs) ==
    IF cs = <<>> THEN <<>> ELSE words(Head(cs)) \o all_words(Tail(cs))

\* The multiset of the elements of a sequence.
bag_of(ws) ==
    [w \in {ws[i] : i \in 1..Len(ws)} |-> Cardinality({i \in 1..Len(ws) : ws[i] = w})]

\* C1: every chunk chunk_text returns is at most max_chars long or is
\* exactly one whitespace-delimited word.
C1_ChunkBudget ==
    Chunked =>
        \A i \in 1..Len(chunks) :
            Len(chunks[i]) <= max_chars \/ Len(words(chunks[i])) = 1

\* chunk_text returned several chunks, one an oversized single word and one
\* within the budget.
C1_Witness ==
    /\ Chunked
    /\ max_chars > 0
    /\ \E i \in 1..Len(chunks) : Len(chunks[i]) > max_chars
    /\ \E i \in 1..Len(chunks) : Len(chunks[i]) <= max_chars

\* C2: the multiset of the words of the chunks of a cleaned text equals the
\* multiset of the words of that text.
C2_WordsPreserved ==
    tpc = "chunked_clean" => bag_of(all_words(chunks)) = bag_of(words(cleaned))

\* C3: clean_text(clean_text(x)) = clean_text(x).
C3_CleanIdempotent ==
    tpc = "recleaned" => recleaned = cleaned

\* clean_text ran twice on a text with a newline, a disallowed character
\* and a character it rewrites.
C3_Witness ==
    /\ tpc = "recleaned"
    /\ \E i \in 1..Len(text) : text[i] = "\n"
    /\ \E i \in 1..Len(text) : text[i] = "#"
    /\ \E i \in 1..Len(text) : text[i] = ";"

\* C4: the result of clean_text holds only characters of the allowed
\* alphabet and ends with one of . ? ! ,
C4_CleanAlphabetAndEnd ==
    tpc \in {"cleaned", "recleaned"} =>
        /\ \A i \in 1..Len(cleaned) : cleaned[i] \in all_valid_chars
        /\ cleaned # <<>>
        /\ cleaned[Len(cleaned)] \in Terminal

\* clean_text ran on a text with a disallowed character that did not end
\* with terminal punctuation.
C4_Witness ==
    /\ tpc = "cleaned"
    /\ \E i \in 1..Len(text) : text[i] = "#"
    /\ ~endswith(text, Terminal)

\* The chunk has fewer than 4 words.
short_chunk(c) == Len(words(c)) < 4

\* The two chunks joined by a space fit max_chars.
merge_fits(a, b) == Len(a \o <<" ">> \o b) <= max_chars

\* C19: in the list chunk_text returns, no chunk of fewer than 4 words
\* could be merged with the chunk after it or the chunk before it without
\* the merged text exceeding max_chars.
C19_NoMergeableShortChunk ==
    Chunked =>
        \A i \in 1..Len(chunks) :
            short_chunk(chunks[i]) =>
                /\ i < Len(chunks) => ~merge_fits(chunks[i], chunks[i + 1])
                /\ i > 1 => ~merge_fits(chunks[i - 1], chunks[i])

\* chunk_text returned at least three chunks with a budget of at least 3,
\* and a chunk of fewer than 4 words has a chunk on either side.
C19_Witness ==
    /\ Chunked
    /\ max_chars >= 3
    /\ Len(chunks) >= 3
    /\ short_chunk(chunks[2])

\* C20: for a cleaned text no longer than max_chars, chunk_text returns
\* exactly one chunk, the text unchanged, however many sentences it has.
C20_ShortTextOneChunk ==
    (tpc = "chunked_clean" /\ Len(cleaned) <= max_chars) => chunks = <<cleaned>>

\* A cleaned text of several sentences, one of them with a comma followed
\* by a space, that fits max_chars was chunked.
C20_Witness ==
    /\ tpc = "chunked_clean"
    /\ Len(cleaned) <= max_chars
    /\ Len(split_sentences(cleaned, "", <<>>)) >= 2
    /\ \E i \in 1..(Len(cleaned) - 1) : cleaned[i] = "," /\ cleaned[i + 1] = " "

----------------------------------------------------------------------------
(* The HTTP layer: get_tts_engine, synthesize_async, TTSApi and the       *)
(* handlers of app.py.  The code of a coroutine between two awaits is one *)
(* action (one event loop); what to_thread.run_sync runs is a worker      *)
(* thread whose steps interleave with the event loop and other workers.   *)

\* synthesize_to_bytes is running on the worker thread.
InWorker == {"w_tmp", "w_build", "w_have", "w_synth_ok", "w_failed"}

\* The request was answered, with a response or with an error.
Finished == {"responded", "error"}

tmp_file(r) == <<"tmp", r>>

out_file(r) == <<"out", r>>

\* Mutant: the constructed instance is not kept in the module global.
get_tts_engine_global_unset(e, ok, id) == e

\* Mutant: the assignment to _engine happens although TTSApi(...) raised.
get_tts_engine_global_keeps_failed(e, ok, id) == IF e = None THEN id ELSE e

\* get_tts_engine: the value of the global _engine after the call; id is
\* the instance TTSApi(...) returns when it does not raise (ok).
get_tts_engine_global(e, ok, id) ==
    IF e = None THEN (IF ok THEN id ELSE None) ELSE e

\* get_tts_engine raises RuntimeError.
get_tts_engine_raises(e, ok) == e = None /\ ~ok

\* get_tts_engine: the instance returned when it does not raise.
get_tts_engine_result(e, ok, id) == IF e = None THEN id ELSE e

\* A handler calls synthesize_async, which runs to its first await:
\* get_tts_engine, the save and overwrite of engine.config.speed, and the
\* hand-over to a worker thread.
SynthesizeAsyncBegin(r) ==
    /\ rpc[r] = "idle"
    /\ \E k \in Kinds, s \in Speeds, ok \in BOOLEAN :
         LET id == engine_ctor_calls + 1 IN
         /\ kind' = [kind EXCEPT ![r] = k]
         /\ req_speed' = [req_speed EXCEPT ![r] = s]
         /\ speed_before' = [speed_before EXCEPT ![r] = speed]
         /\ pred' = [pred EXCEPT ![r] = {q \in Requests : rpc[q] \in Finished}]
         /\ engine_ctor_calls' = IF _engine = None THEN engine_ctor_calls + 1
                                 ELSE engine_ctor_calls
         /\ engine_ctor_failed' = IF get_tts_engine_raises(_engine, ok)
                                  THEN engine_ctor_failed + 1
                                  ELSE engine_ctor_failed
         /\ _engine' = get_tts_engine_global(_engine, ok, id)
         /\ IF get_tts_engine_raises(_engine, ok)
            THEN /\ rpc' = [rpc EXCEPT ![r] = "error"]
                 /\ outcome' = [outcome EXCEPT ![r] = "init_error"]
                 /\ UNCHANGED <<returned, original_speed, speed>>
            ELSE /\ UNCHANGED outcome
                 /\ returned' = returned \cup {get_tts_engine_result(_engine, ok, id)}
                 /\ original_speed' = [original_speed EXCEPT ![r] = speed]
                 /\ speed' = s
                 /\ rpc' = [rpc EXCEPT ![r] = "queued"]
    /\ UNCHANGED <<api_engine, core_ctor_calls, tmp_dir, _file_cache, calls>>
    /\ UNCHANGED nonApiVars

\* TTSApi.synthesize_to_bytes starts on the worker thread: the temporary
\* WAV file is created (delete=False) in TMP_DIR_PATH.
TmpCreate(r) ==
    /\ rpc[r] = "queued"
    /\ tmp_dir' = tmp_dir \cup {tmp_file(r)}
    /\ rpc' = [rpc EXCEPT ![r] = "w_tmp"]
    /\ UNCHANGED <<_engine, engine_ctor_calls, engine_ctor_failed, returned, speed,
                   api_engine, core_ctor_calls, _file_cache, kind, req_speed,
                   original_speed, speed_before, calls, outcome, pred>>
    /\ UNCHANGED nonApiVars

\* TTSApi.engine: the test `self._engine is None`.
EngineCheck(r) ==
    /\ rpc[r] = "w_tmp"
    /\ rpc' = [rpc EXCEPT ![r] = IF api_engine = None THEN "w_build" ELSE "w_have"]
    /\ UNCHANGED <<_engine, engine_ctor_calls, engine_ctor_failed, returned, speed,
                   api_engine, core_ctor_calls, tmp_dir, _file_cache, kind, req_speed,
                   original_speed, speed_before, calls, outcome, pred>>
    /\ UNCHANGED nonApiVars

\* TTSApi.engine: self._engine = TTSEngine(self.config), which may raise.
EngineBuild(r) ==
    /\ rpc[r] = "w_build"
    /\ core_ctor_calls' = core_ctor_calls + 1
    /\ \E ok \in BOOLEAN :
         IF ok
         THEN /\ api_engine' = core_ctor_calls + 1
              /\ rpc' = [rpc EXCEPT ![r] = "w_have"]
              /\ UNCHANGED outcome
         ELSE /\ UNCHANGED api_engine
              /\ rpc' = [rpc EXCEPT ![r] = "w_failed"]
              /\ outcome' = [outcome EXCEPT ![r] = "build_error"]
    /\ UNCHANGED <<_engine, engine_ctor_calls, engine_ctor_failed, returned, speed,
                   tmp_dir, _file_cache, kind, req_speed,
                   original_speed, speed_before, calls, pred>>
    /\ UNCHANGED nonApiVars

\* Mutant: a failed synthesis is tried again.
after_synthesize_retry(ok) == IF ok THEN "w_synth_ok" ELSE "w_have"

\* Where synthesize_to_bytes goes after self.engine.synthesize(...): on to
\* reading the file, or, when it raised, to the finally clause.
after_synthesize(ok) == IF ok THEN "w_synth_ok" ELSE "w_failed"

\* TTSApi.synthesize: one call of engine.synthesize, which writes the audio
\* to the temporary file or raises.
EngineSynthesize(r) ==
    /\ rpc[r] = "w_have"
    /\ calls' = [calls EXCEPT ![r] = @ + 1]
    /\ \E ok \in BOOLEAN :
         /\ outcome' = [outcome EXCEPT ![r] = IF ok THEN "ok" ELSE "fail"]
         /\ rpc' = [rpc EXCEPT ![r] = after_synthesize(ok)]
    /\ UNCHANGED <<_engine, engine_ctor_calls, engine_ctor_failed, returned, speed,
                   api_engine, core_ctor_calls, tmp_dir, _file_cache, kind, req_speed,
                   original_speed, speed_before, pred>>
    /\ UNCHANGED nonApiVars

\* Mutant: the temporary file, created with delete=False, is never unlinked.
unlink_tmp_skipped(files, r, ok) == files

\* Mutant: the temporary file is unlinked only after a successful read.
unlink_tmp_on_success(files, r, ok) == IF ok THEN files \ {tmp_file(r)} ELSE files

\* The finally clause of synthesize_to_bytes: Path(tmp_path).unlink.
unlink_tmp(files, r, ok) == files \ {tmp_file(r)}

\* synthesize_to_bytes ends: the bytes are read (after a success) and the
\* finally clause removes the temporary file.
ReadAndUnlink(r) ==
    /\ rpc[r] \in {"w_synth_ok", "w_failed"}
    /\ tmp_dir' = unlink_tmp(tmp_dir, r, rpc[r] = "w_synth_ok")
    /\ rpc' = [rpc EXCEPT ![r] = IF rpc[r] = "w_synth_ok" THEN "w_done_ok" ELSE "w_done_err"]
    /\ UNCHANGED <<_engine, engine_ctor_calls, engine_ctor_failed, returned, speed,
                   api_engine, core_ctor_calls, _file_cache, kind, req_speed,
                   original_speed, speed_before, calls, outcome, pred>>
    /\ UNCHANGED nonApiVars

\* synthesize_async resumes with the result: it restores the speed and
\* returns; synthesize_stream answers, synthesize_to_file goes on to its
\* await of aiofiles.open.
SynthesizeAsyncReturn(r) ==
    /\ rpc[r] = "w_done_ok"
    /\ speed' = original_speed[r]
    /\ rpc' = [rpc EXCEPT ![r] = IF kind[r] = "stream" THEN "responded" ELSE "opening"]
    /\ UNCHANGED <<_engine, engine_ctor_calls, engine_ctor_failed, returned,
                   api_engine, core_ctor_calls, tmp_dir, _file_cache, kind, req_speed,
                   original_speed, speed_before, calls, outcome, pred>>
    /\ UNCHANGED nonApiVars

\* synthesize_async resumes with the worker's exception: the except clause
\* logs and re-raises it, and the handler answers with an error.
SynthesizeAsyncRaise(r) ==
    /\ rpc[r] = "w_done_err"
    /\ rpc' = [rpc EXCEPT ![r] = "error"]
    /\ UNCHANGED <<_engine, engine_ctor_calls, engine_ctor_failed, returned, speed,
                   api_engine, core_ctor_calls, tmp_dir, _file_cache, kind, req_speed,
                   original_speed, speed_before, calls, outcome, pred>>
    /\ UNCHANGED nonApiVars

\* synthesize_to_file: aiofiles.open(file_path, "wb") creates the file.
FileOpen(r) ==
    /\ rpc[r] = "opening"
    /\ tmp_dir' = tmp_dir \cup {out_file(r)}
    /\ rpc' = [rpc EXCEPT ![r] = "writing"]
    /\ UNCHANGED <<_engine, engine_ctor_calls, engine_ctor_failed, returned, speed,
                   api_engine, core_ctor_calls, _file_cache, kind, req_speed,
                   original_speed, speed_before, calls, outcome, pred>>
    /\ UNCHANGED nonApiVars

\* synthesize_to_file: the bytes are written, the entry is put in
\* _file_cache and the response is returned.
FileWritten(r) ==
    /\ rpc[r] = "writing"
    /\ _file_cache' = _file_cache \cup {r}
    /\ rpc' = [rpc EXCEPT ![r] = "responded"]
    /\ UNCHANGED <<_engine, engine_ctor_calls, engine_ctor_failed, returned, speed,
                   api_engine, core_ctor_calls, tmp_dir, kind, req_speed,
                   original_speed, speed_before, calls, outcome, pred>>
    /\ UNCHANGED nonApiVars

Init == TextStart /\ ApiStart /\ SynthStart /\ ClientStart /\ ReqStart /\ SrvStart /\ AudioStart /\ LifeStart /\ CliStart /\ ExpiryStart

\* One step of a synthesis request.
RequestStep(r) ==
    \/ SynthesizeAsyncBegin(r)
    \/ TmpCreate(r)
    \/ EngineCheck(r)
    \/ EngineBuild(r)
    \/ EngineSynthesize(r)
    \/ ReadAndUnlink(r)
    \/ SynthesizeAsyncReturn(r)
    \/ SynthesizeAsyncRaise(r)
    \/ FileOpen(r)
    \/ FileWritten(r)

Next == \E r \in Requests : RequestStep(r)

Spec == Init /\ [][Next]_vars

----------------------------------------------------------------------------
(* Claims about the HTTP layer *)

\* C5: while a request's synthesis runs on the worker thread,
\* engine.config.speed is the speed that request asked for.
C5_SpeedStableInFlight ==
    \A r \in Requests : rpc[r] \in InWorker => speed = req_speed[r]

\* C6: when synthesize_async ends for a request, by returning or by
\* raising, engine.config.speed is what it was when the request began.
C6_SpeedRestored ==
    [][\A r \in Requests :
          (rpc[r] \in {"w_done_ok", "w_done_err"} /\ rpc'[r] # rpc[r])
              => speed' = speed_before[r]]_vars

\* The synthesis of request r failed: engine.synthesize raised, or one of
\* the two engine objects could not be built for it.
SynthesisFailed(r) == outcome[r] \in {"init_error", "build_error", "fail"}

\* C8: a synthesize/file request whose synthesis failed ends with an
\* error, and neither a cache entry nor a file of that request is left.
C8_FailedFileRequestLeavesNothing ==
    \A r \in Requests :
        (kind[r] = "file" /\ SynthesisFailed(r) /\ rpc[r] \notin InWorker) =>
            /\ rpc[r] \in {"w_done_err", "error"}
            /\ r \notin _file_cache
            /\ tmp_file(r) \notin tmp_dir
            /\ out_file(r) \notin tmp_dir

\* A synthesize/file request ended with an error after engine.synthesize
\* raised on the worker thread, where its temporary file had been created.
C8_Witness ==
    \E r \in Requests :
        /\ kind[r] = "file"
        /\ outcome[r] = "fail"
        /\ rpc[r] = "error"

\* C9: a request invokes engine.synthesize at most once; a request whose
\* invocation failed is answered with an error, never with audio.
C9_NoRetry ==
    \A r \in Requests :
        /\ calls[r] <= 1
        /\ (outcome[r] = "fail" /\ rpc[r] \notin InWorker) => rpc[r] \in {"w_done_err", "error"}
        /\ rpc[r] \in {"w_done_ok", "opening", "writing", "responded"} => outcome[r] = "ok"

\* After a request's synthesis failed and the request ended, a request
\* that began later on the same TTSApi was answered with audio.
C9_Witness ==
    \E r, q \in Requests :
        /\ rpc[r] = "error" /\ outcome[r] = "fail"
        /\ r \in pred[q]
        /\ rpc[q] = "responded" /\ outcome[q] = "ok" /\ calls[q] = 1

\* C10 as stated: the TTSApi constructor runs at most once and every call
\* returns the same instance.
C10_ConstructorRunsOnce ==
    /\ engine_ctor_calls <= 1
    /\ Cardinality(returned) <= 1

\* C10 amended: the TTSApi constructor succeeds at most once, it is run
\* again only while no instance is installed, and every call that returns
\* returns the same instance, the installed one.
C10_OneInstance ==
    /\ engine_ctor_calls - engine_ctor_failed <= 1
    /\ Cardinality(returned) <= 1
    /\ returned \subseteq {_engine}
    /\ (_engine = None) = (engine_ctor_calls = engine_ctor_failed)

\* Two get_tts_engine calls have returned.
C10_Witness ==
    /\ _engine # None
    /\ Cardinality({r \in Requests : rpc[r] # "idle" /\ outcome[r] # "init_error"}) >= 2

\* C14: once TTSApi.synthesize_to_bytes has returned or raised, the
\* temporary WAV file it created no longer exists.
C14_TmpFileGone ==
    \A r \in Requests : tmp_file(r) \in tmp_dir => rpc[r] \in InWorker

\* synthesize_to_bytes has returned for one request and raised, after
\* engine.synthesize failed, for another.
C14_Witness ==
    \E r, q \in Requests :
        /\ rpc[r] = "w_done_ok"
        /\ rpc[q] = "w_done_err" /\ outcome[q] = "fail"

----------------------------------------------------------------------------
(* The health endpoint next to running syntheses.  Handlers are coroutines *)
(* of one event loop; a coroutine that awaits to_thread.run_sync is        *)
(* suspended and the loop runs the other handlers.  Nothing makes a worker *)
(* thread finish: a synthesis may run for ever.                            *)

SrvRequests == 1..NumSrvReq

\* synthesize_to_bytes has been handed to a worker thread and has not
\* returned to synthesize_async.
Running == {"queued"} \cup InWorker

\* Mutant: synthesize_to_bytes is called in the coroutine itself, which
\* keeps the event loop until the synthesis ends.
loop_held_in_sync == Running

\* The positions of a request in which its coroutine occupies the event
\* loop between two steps: none, the await of to_thread.run_sync gives the
\* loop back.
loop_held_in == {}

EventLoopFree == \A r \in Requests : rpc[r] \notin loop_held_in

\* A GET /api/v1/health request arrives.
HealthArrive ==
    /\ health \in {"none", "answered"}
    /\ health' = "pending"
    /\ health_seen' = {r \in Requests : rpc[r] \in Running}
    /\ UNCHANGED <<dl, dl_n>>
    /\ UNCHANGED <<apiVars, nonSrvVars>>

\* The event loop runs the health handler, which answers at once.
HealthRespond ==
    /\ health = "pending"
    /\ EventLoopFree
    /\ health' = "answered"
    /\ UNCHANGED <<health_seen, dl, dl_n>>
    /\ UNCHANGED <<apiVars, nonSrvVars>>

NextHealth ==
    \/ \E r \in SrvRequests : RequestStep(r)
    \/ HealthArrive
    \/ HealthRespond

\* The event loop runs a handler that is ready; worker threads are under
\* no obligation.
SpecHealth == Init /\ [][NextHealth]_vars /\ WF_vars(HealthRespond)

\* C13: a health request is eventually answered, whether or not the
\* syntheses that are running ever finish.
C13_HealthAnswered == (health = "pending") ~> (health = "answered")

\* A health request that arrived while a synthesis was running on a worker
\* thread was answered while that synthesis was still running.
C13_Witness ==
    /\ health = "answered"
    /\ \E r \in health_seen : rpc[r] = "w_have"

----------------------------------------------------------------------------
(* The download endpoint.  A file id is the number of the request that    *)
(* made the file; the ids of requests that never came are unknown ids.    *)

\* Mutant: the handler does not test that the file exists.
download_found_cached(cached, exists) == cached

\* download_file: the id has a cache entry and its path exists.
download_found(cached, exists) == cached /\ exists

\* GET /api/v1/download/{file_id}: a File response, or NotFoundException.
DownloadFile ==
    /\ dl_n < MaxDownloads
    /\ \E id \in Requests :
         dl' = <<id, IF download_found(id \in _file_cache, out_file(id) \in tmp_dir)
                     THEN 200 ELSE 404>>
    /\ dl_n' = dl_n + 1
    /\ UNCHANGED <<health, health_seen>>
    /\ UNCHANGED <<apiVars, nonSrvVars>>

\* The files that can be older than FILE_LIFESPAN: the output files of
\* requests that have ended (a synthesis is shorter than the lifespan).
MayBeOld == {f \in tmp_dir : \E r \in Requests : f = out_file(r) /\ rpc[r] \in Finished}

\* cleanup_old_files, the background task of a synthesize/download
\* response: every file older than FILE_LIFESPAN is removed; which files
\* are that old is an input.  The file cache is not touched.
CleanupOldFiles ==
    /\ \E old \in SUBSET MayBeOld : tmp_dir' = tmp_dir \ old
    /\ UNCHANGED <<_engine, engine_ctor_calls, engine_ctor_failed, returned, speed,
                   api_engine, core_ctor_calls, _file_cache, rpc, kind, req_speed,
                   original_speed, speed_before, calls, outcome, pred>>
    /\ UNCHANGED <<srvVars, nonSrvVars>>

NextDownload ==
    \/ \E r \in SrvRequests : RequestStep(r)
    \/ DownloadFile
    \/ CleanupOldFiles

SpecDownload == Init /\ [][NextDownload]_vars

\* C17: a download request is answered with the file only when its id was
\* put in the file cache by an earlier synthesize/file request and the
\* file still exists; any other download request is answered with 404.
C17_DownloadOnlyCachedExisting ==
    [][dl_n' # dl_n =>
          LET id == dl'[1]
              known == id \in _file_cache /\ kind[id] = "file" /\ rpc[id] = "responded"
          IN  IF known /\ out_file(id) \in tmp_dir
              THEN dl'[2] = 200
              ELSE dl'[2] = 404]_vars

\* The download of a file that a synthesize/file request had made and
\* cached, and that was deleted since, was answered with 404.
C17_Witness ==
    /\ dl # <<>>
    /\ dl[2] = 404
    /\ dl[1] \in _file_cache
    /\ out_file(dl[1]) \notin tmp_dir

----------------------------------------------------------------------------
(* One TTSApi used directly by several threads (client.py): each thread   *)
(* calls synthesize, which reads the lazy `engine` property, or cleanup.  *)
(* The statements of the property are separate steps of the thread.       *)

\* A thread calls TTSApi.synthesize with a text; the call reaches the
\* `engine` property.
ClientCall(t) ==
    /\ cpc[t] = "idle"
    /\ cpc' = [cpc EXCEPT ![t] = "check"]
    /\ UNCHANGED <<built, engine_used>>
    /\ UNCHANGED nonClientVars

\* TTSApi.engine: the test `self._engine is None`.
ClientEngineCheck(t) ==
    /\ cpc[t] = "check"
    /\ cpc' = [cpc EXCEPT ![t] = IF api_engine = None THEN "build" ELSE "ret"]
    /\ UNCHANGED <<built, engine_used>>
    /\ UNCHANGED nonClientVars

\* TTSApi.engine: self._engine = TTSEngine(self.config); when the
\* constructor raises, so does the call.
ClientEngineBuild(t) ==
    /\ cpc[t] = "build"
    /\ core_ctor_calls < MaxCoreCtor
    /\ core_ctor_calls' = core_ctor_calls + 1
    /\ \E ok \in BOOLEAN :
         IF ok
         THEN /\ api_engine' = core_ctor_calls + 1
              /\ built' = built \cup {core_ctor_calls + 1}
              /\ cpc' = [cpc EXCEPT ![t] = "ret"]
         ELSE /\ UNCHANGED <<api_engine, built>>
              /\ cpc' = [cpc EXCEPT ![t] = "idle"]
    /\ UNCHANGED engine_used
    /\ UNCHANGED <<_engine, engine_ctor_calls, engine_ctor_failed, returned, speed,
                   tmp_dir, _file_cache, rpc, kind, req_speed,
                   original_speed, speed_before, calls, outcome, pred>>
    /\ UNCHANGED nonApiClientVars

\* TTSApi.engine: `return self._engine`, the instance the caller uses.
ClientEngineReturn(t) ==
    /\ cpc[t] = "ret"
    /\ engine_used' = [engine_used EXCEPT ![t] = api_engine]
    /\ cpc' = [cpc EXCEPT ![t] = "synth"]
    /\ UNCHANGED built
    /\ UNCHANGED nonClientVars

\* TTSApi.synthesize: self.engine.synthesize(...) returns or raises, and
\* the call ends.
ClientSynthesize(t) ==
    /\ cpc[t] = "synth"
    /\ cpc' = [cpc EXCEPT ![t] = "idle"]
    /\ UNCHANGED <<built, engine_used>>
    /\ UNCHANGED nonClientVars

\* TTSApi.cleanup, called while no synthesize call is under way: the
\* engine is cleaned up and self._engine is None again.
ClientCleanup(t) ==
    /\ \A u \in Threads : cpc[u] = "idle"
    /\ api_engine # None
    /\ api_engine' = None
    /\ built' = {}
    /\ engine_used' = [u \in Threads |-> None]
    /\ UNCHANGED cpc
    /\ UNCHANGED <<_engine, engine_ctor_calls, engine_ctor_failed, returned, speed,
                   core_ctor_calls, tmp_dir, _file_cache, rpc, kind, req_speed,
                   original_speed, speed_before, calls, outcome, pred>>
    /\ UNCHANGED nonApiClientVars

InitClient == TextStart /\ ApiStart /\ SynthStart /\ ClientStart /\ ReqStart /\ SrvStart /\ AudioStart /\ LifeStart /\ CliStart /\ ExpiryStart

NextClient ==
    \E t \in Threads :
        \/ ClientCall(t)
        \/ ClientEngineCheck(t)
        \/ ClientEngineBuild(t)
        \/ ClientEngineReturn(t)
        \/ ClientSynthesize(t)
        \/ ClientCleanup(t)

SpecClient == InitClient /\ [][NextClient]_vars

\* C11: between two cleanups one TTSApi constructs at most one TTSEngine,
\* also when several threads make their first synthesize call at the same
\* time, and every access to `engine` returns that one instance.
C11_OneCoreEngine ==
    /\ Cardinality(built) <= 1
    /\ \A t \in Threads : engine_used[t] # None => engine_used[t] \in built
    /\ \A t, u \in Threads :
          (engine_used[t] # None /\ engine_used[u] # None)
              => engine_used[t] = engine_used[u]

----------------------------------------------------------------------------
(* One request body on its way from the HTTP framework to the engine:     *)
(* the validation of SynthesizeRequest (api/schemas.py), which the        *)
(* framework runs before it calls a handler, and the arguments the        *)
(* handler, synthesize_async and TTSApi pass on.  The text is its length, *)
(* the speed is in hundredths, an optional field is <<>> or <<value>>.    *)

\* Field(min_length=1, max_length=500) of text.
TextMinLength == 1

TextMaxLength == 500

\* Field(ge=0.25, le=2.0) of speed, in hundredths.
SpeedMin == 25

SpeedMax == 200

GenderValues == {"male", "female"}

GroupValues == {"story", "news", "audiobook", "interview", "review"}

AreaValues == {"northern", "southern", "central"}

EmotionValues ==
    {"neutral", "serious", "monotone", "sad", "surprised", "happy", "angry"}

Optional(S) == {<<>>} \cup {<<v>> : v \in S}

\* Request bodies: every field at, inside and outside its constraint.
Bodies ==
    [text_len : {0, TextMinLength, TextMaxLength, TextMaxLength + 1},
     speed : {SpeedMin - 1, SpeedMin, SpeedMax, SpeedMax + 1},
     output_format : {"wav", "mp3"},
     gender : Optional(GenderValues \cup {"other"}),
     group : Optional({"story", "review", "other"}),
     area : Optional({"northern", "other"}),
     emotion : Optional({"neutral", "angry", "other"}),
     sample_iteration : Optional((0 - 1)..MaxSampleIteration)]

\* Mutant: the text has no maximum length.
valid_text_no_max(n) == n >= TextMinLength

valid_text(n) == n >= TextMinLength /\ n <= TextMaxLength

valid_speed(v) == v >= SpeedMin /\ v <= SpeedMax

valid_output_format(f) == f = "wav"

\* Optional[<Enum>]: null or one of the enum's values.
valid_filter(v, S) == v = <<>> \/ v[1] \in S

\* Optional[int] with ge=0.
valid_sample_iteration(v) == v = <<>> \/ v[1] >= 0

\* The body validates as a SynthesizeRequest.
SynthesizeRequest_valid(d) ==
    /\ valid_text(d.text_len)
    /\ valid_speed(d.speed)
    /\ valid_output_format(d.output_format)
    /\ valid_filter(d.gender, GenderValues)
    /\ valid_filter(d.group, GroupValues)
    /\ valid_filter(d.area, AreaValues)
    /\ valid_filter(d.emotion, EmotionValues)
    /\ valid_sample_iteration(d.sample_iteration)

\* The keyword arguments a handler gives synthesize_async.
synthesize_async_args(d) ==
    [text_len |-> d.text_len, speed |-> d.speed, gender |-> d.gender,
     group |-> d.group, area |-> d.area, emotion |-> d.emotion]

\* The parameters of TTSApi.synthesize_to_bytes as synthesize_async calls
\* it: five positional arguments, the others at their default None.
synthesize_to_bytes_args(a) ==
    [text_len |-> a.text_len, gender |-> a.gender, group |-> a.group,
     area |-> a.area, emotion |-> a.emotion, sample_iteration |-> <<>>]

\* What synthesize_to_bytes, synthesize_to_file and synthesize pass on,
\* each by keyword, down to engine.synthesize.
engine_synthesize_args(b) ==
    [text_len |-> b.text_len, gender |-> b.gender, group |-> b.group,
     area |-> b.area, emotion |-> b.emotion,
     sample_iteration |-> b.sample_iteration]

\* A request body has arrived at one of the synthesis endpoints.
InitRequest ==
    /\ data \in Bodies
    /\ req_state = "received"
    /\ resp_status = 0
    /\ engine_args = <<>>
    /\ engine_invocations = 0
    /\ TextStart
    /\ ApiStart
    /\ SynthStart
    /\ ClientStart
    /\ SrvStart
    /\ AudioStart
    /\ LifeStart
    /\ CliStart
    /\ ExpiryStart

\* The framework validates the body against SynthesizeRequest: a body that
\* fails is answered with 400 and the handler is not called.
ValidateBody ==
    /\ req_state = "received"
    /\ IF SynthesizeRequest_valid(data)
       THEN /\ req_state' = "handling"
            /\ UNCHANGED resp_status
       ELSE /\ req_state' = "rejected"
            /\ resp_status' = 400
    /\ UNCHANGED <<data, engine_args, engine_invocations>>
    /\ UNCHANGED nonReqVars

\* The handler calls synthesize_async, which calls synthesize_to_bytes,
\* which ends in one call of engine.synthesize.
HandlerSynthesize ==
    /\ req_state = "handling"
    /\ engine_args' =
          engine_synthesize_args(synthesize_to_bytes_args(synthesize_async_args(data)))
    /\ engine_invocations' = engine_invocations + 1
    /\ req_state' = "synthesized"
    /\ UNCHANGED <<data, resp_status>>
    /\ UNCHANGED nonReqVars

\* The handler answers: with the audio, or with a server error when the
\* synthesis raised.
HandlerRespond ==
    /\ req_state = "synthesized"
    /\ \E st \in {201, 500} : resp_status' = st
    /\ req_state' = "responded"
    /\ UNCHANGED <<data, engine_args, engine_invocations>>
    /\ UNCHANGED nonReqVars

NextRequest == ValidateBody \/ HandlerSynthesize \/ HandlerRespond

SpecRequest == InitRequest /\ [][NextRequest]_vars

\* C12: a request whose text is empty or longer than 500 characters,
\* whose speed is outside [0.25, 2.0], whose output format is not wav or
\* whose voice filter is not a listed value is answered with a client
\* error, and engine.synthesize is never invoked for it.
C12_InvalidRejected ==
    (/\ req_state # "none"
     /\ \/ data.text_len = 0
        \/ data.text_len > 500
        \/ data.speed < 25
        \/ data.speed > 200
        \/ data.output_format # "wav"
        \/ data.gender \notin Optional(GenderValues)
        \/ data.group \notin Optional(GroupValues)
        \/ data.area \notin Optional(AreaValues)
        \/ data.emotion \notin Optional(EmotionValues))
    => /\ engine_invocations = 0
       /\ req_state \in {"received", "rejected"}
       /\ req_state = "rejected" => resp_status = 400

\* A body whose only fault is a text of 501 characters was rejected.
C12_Witness ==
    /\ req_state = "rejected"
    /\ resp_status = 400
    /\ data.text_len = 501
    /\ data.speed = 200
    /\ data.output_format = "wav"
    /\ data.gender = <<"male">>
    /\ data.group = <<>>
    /\ data.area = <<>>
    /\ data.emotion = <<"angry">>
    /\ data.sample_iteration = <<>>

\* The sample iteration a value of the optional field stands for: absent
\* means the first sample.
sample_index(v) == IF v = <<>> THEN 0 ELSE v[1]

\* C18: when the request carries sample_iteration = k the synthesis runs
\* with sample iteration k, and with the first sample when it is absent.
C18_SampleIterationUsed ==
    req_state \in {"synthesized", "responded"} =>
        sample_index(engine_args.sample_iteration) = sample_index(data.sample_iteration)

----------------------------------------------------------------------------
(* The synthesis loop of the core engine (TTSEngine.synthesize): for each *)
(* prepared chunk the three inference stages, then the reassembly.  Each  *)
(* stage is a black box that returns or raises.                           *)

ChunkLabels == {"x", "y"}

StageOrder == <<"preprocess", "refine", "decode">>

\* The audio chunk decoded from text chunk i.
audio_of(cs, i) == <<i, cs[i]>>

\* Mutant: a decoded chunk is put in front of the collected ones.
collect_in_front(acs, a) == <<a>> \o acs

\* The decoded chunk joins the collected audio chunks.
collect(acs, a) == Append(acs, a)

\* A synthesize call on a text that chunks into text_chunks.
InitSynth ==
    /\ text_chunks \in UNION {[1..n -> ChunkLabels] : n \in 1..MaxChunks}
    /\ ci = 0
    /\ stage = "start"
    /\ audio_chunks = <<>>
    /\ events = <<>>
    /\ handed = <<>>
    /\ TextStart
    /\ ApiStart
    /\ ClientStart
    /\ ReqStart
    /\ SrvStart
    /\ AudioStart
    /\ LifeStart
    /\ CliStart
    /\ ExpiryStart

\* _prepare_inputs: one input set per text chunk, in order.
PrepareInputs ==
    /\ stage = "start"
    /\ ci' = 1
    /\ stage' = "ready"
    /\ UNCHANGED <<text_chunks, audio_chunks, events, handed>>
    /\ UNCHANGED nonSynthVars

\* _run_preprocess on the current chunk.
RunPreprocess ==
    /\ stage = "ready"
    /\ events' = Append(events, <<"preprocess", ci>>)
    /\ \E ok \in BOOLEAN : stage' = IF ok THEN "preprocessed" ELSE "failed"
    /\ UNCHANGED <<text_chunks, ci, audio_chunks, handed>>
    /\ UNCHANGED nonSynthVars

\* _run_transformer_steps on the current chunk.
RunTransformerSteps ==
    /\ stage = "preprocessed"
    /\ events' = Append(events, <<"refine", ci>>)
    /\ \E ok \in BOOLEAN : stage' = IF ok THEN "refined" ELSE "failed"
    /\ UNCHANGED <<text_chunks, ci, audio_chunks, handed>>
    /\ UNCHANGED nonSynthVars

\* _run_decode on the current chunk; the loop goes on to the next chunk.
RunDecode ==
    /\ stage = "refined"
    /\ events' = Append(events, <<"decode", ci>>)
    /\ \E ok \in BOOLEAN :
         IF ok
         THEN /\ audio_chunks' = collect(audio_chunks, audio_of(text_chunks, ci))
              /\ ci' = ci + 1
              /\ stage' = IF ci + 1 > Len(text_chunks) THEN "decoded_all" ELSE "ready"
         ELSE /\ stage' = "failed"
              /\ UNCHANGED <<audio_chunks, ci>>
    /\ UNCHANGED <<text_chunks, handed>>
    /\ UNCHANGED nonSynthVars

\* The collected audio chunks are handed to the reassembler
\* (concatenate_with_crossfade_improved).
Reassemble ==
    /\ stage = "decoded_all"
    /\ handed' = audio_chunks
    /\ stage' = "done"
    /\ UNCHANGED <<text_chunks, ci, audio_chunks, events>>
    /\ UNCHANGED nonSynthVars

NextSynth ==
    \/ PrepareInputs
    \/ RunPreprocess
    \/ RunTransformerSteps
    \/ RunDecode
    \/ Reassemble

SpecSynth == InitSynth /\ [][NextSynth]_vars

\* The stage calls of a synthesize call over n chunks when none fails.
stage_calls(n) ==
    [k \in 1..(3 * n) |-> <<StageOrder[((k - 1) % 3) + 1], ((k - 1) \div 3) + 1>>]

\* C7: the stage calls made so far are, in order, preprocess, refine and
\* decode of chunk 1, then of chunk 2, and so on; the reassembler is given
\* the audio chunks of all text chunks in the order of the text chunks.
C7_ChunksInOrder ==
    /\ Len(events) <= 3 * Len(text_chunks)
    /\ events = SubSeq(stage_calls(Len(text_chunks)), 1, Len(events))
    /\ stage = "done" =>
         /\ Len(events) = 3 * Len(text_chunks)
         /\ handed = [i \in 1..Len(text_chunks) |-> audio_of(text_chunks, i)]
    /\ stage # "done" => handed = <<>>

\* A synthesize call over several different chunks was reassembled.
C7_Witness ==
    /\ stage = "done"
    /\ Len(text_chunks) >= 2
    /\ text_chunks[1] # text_chunks[2]
    /\ Len(handed) = Len(text_chunks)

----------------------------------------------------------------------------
(* The audio reassembler (AudioProcessor): the concatenation with          *)
(* crossfades and the repair of invalid samples.  A waveform is a sequence *)
(* of samples.                                                             *)

\* The chunk length and the crossfade window of the tests: one second at
\* 16000 Hz, and int(0.1 * 16000) samples.
SecondOfSamples == 16000

TenthOfSamples == 1600

Min(a, b) == IF a <= b THEN a ELSE b

\* Mutant: the chunks are joined end to end.
overlap_none(c, prev, nxt) == 0

\* The samples two neighbouring chunks share: the crossfade window, or
\* the shorter chunk when the window is longer than it.
overlap(c, prev, nxt) == Min(c, Min(Len(prev), Len(nxt)))

\* The k-th of n overlapped samples: a linear fade from a to b.
fade(a, b, k, n) == ((a * (n - k + 1)) + (b * k)) \div (n + 1)

\* acc ends with the chunk prev; the chunk nxt is laid over its end.
overlap_add(acc, prev, nxt, c) ==
    LET n == overlap(c, prev, nxt)
        keep == Len(acc) - n
    IN  SubSeq(acc, 1, keep)
            \o [k \in 1..n |-> fade(acc[keep + k], nxt[k], k, n)]
            \o SubSeq(nxt, n + 1, Len(nxt))

RECURSIVE crossfade_from(_, _, _, _)
crossfade_from(acc, prev, rest, c) ==
    IF rest = <<>> THEN acc
    ELSE crossfade_from(overlap_add(acc, prev, Head(rest), c), Head(rest), Tail(rest), c)

\* concatenate_with_crossfade: a single chunk is returned as it is.
concatenate_with_crossfade(cs, c) ==
    IF cs = <<>> THEN <<>> ELSE crossfade_from(Head(cs), Head(cs), Tail(cs), c)

\* A chunk of n samples, all of value v.
tone(n, v) == [k \in 1..n |-> v]

\* Lists of up to MaxChunks chunks of up to MaxWaveLen samples, and the two
\* one-second chunks of the tests.
ChunkLists ==
    {[i \in 1..Len(ls) |-> tone(ls[i], 100 * i)] :
        ls \in UNION {[1..n -> 0..MaxWaveLen] : n \in 1..MaxChunks}}
    \cup {<<tone(SecondOfSamples, 1000), tone(SecondOfSamples, 2000)>>}

InitConcat ==
    /\ wave_chunks \in ChunkLists
    /\ crossfade_samples \in (0..MaxCrossfade) \cup {TenthOfSamples}
    /\ waveform = <<>>
    /\ samples = <<>>
    /\ repaired = <<>>
    /\ apc = "chunks"
    /\ TextStart
    /\ ApiStart
    /\ SynthStart
    /\ ClientStart
    /\ ReqStart
    /\ SrvStart
    /\ LifeStart
    /\ CliStart
    /\ ExpiryStart

\* waveform = concatenate_with_crossfade(wave_chunks, crossfade_samples)
Concatenate ==
    /\ apc = "chunks"
    /\ waveform' = concatenate_with_crossfade(wave_chunks, crossfade_samples)
    /\ apc' = "concatenated"
    /\ UNCHANGED <<wave_chunks, crossfade_samples, samples, repaired>>
    /\ UNCHANGED nonAudioVars

SpecConcat == InitConcat /\ [][Concatenate]_vars

RECURSIVE total_length(_)
total_length(cs) == IF cs = <<>> THEN 0 ELSE Len(Head(cs)) + total_length(Tail(cs))

\* The crossfade window is no longer than either chunk of any adjacent pair.
WindowFits ==
    \A i \in 1..(Len(wave_chunks) - 1) :
        /\ crossfade_samples <= Len(wave_chunks[i])
        /\ crossfade_samples <= Len(wave_chunks[i + 1])

\* C15: the concatenation of n chunks with a crossfade of c samples, c no
\* longer than either chunk of any adjacent pair, has the length
\* sum(L_i) - (n-1)*c; two chunks of 16000 samples with c = 1600 give 30400.
C15_LengthLaw ==
    (apc = "concatenated" /\ WindowFits) =>
        /\ Len(waveform) =
              total_length(wave_chunks) - ((Len(wave_chunks) - 1) * crossfade_samples)
        /\ (/\ Len(wave_chunks) = 2
            /\ Len(wave_chunks[1]) = 16000
            /\ Len(wave_chunks[2]) = 16000
            /\ crossfade_samples = 1600) => Len(waveform) = 30400

\* Two chunks of 16000 samples were concatenated with a crossfade of 1600.
C15_Witness ==
    /\ apc = "concatenated"
    /\ Len(wave_chunks) = 2
    /\ Len(wave_chunks[1]) = 16000
    /\ Len(wave_chunks[2]) = 16000
    /\ crossfade_samples = 1600

----------------------------------------------------------------------------
(* The repair of invalid samples.  A sample is <<"num", v>> with v on the  *)
(* 16-bit scale, <<"nan", 0>>, or <<"inf", 1>> / <<"inf", -1>>.            *)

\* Full scale of the 16-bit output format.
FullScale == 32767

\* The ceiling the reassembler leaves below full scale (10% headroom).
SafeCeiling == 29491

Num(v) == <<"num", v>>

NaN == <<"nan", 0>>

Inf(sign) == <<"inf", sign>>

\* Sample values: silence, half scale, the ceiling and just above it, full
\* scale and beyond it, NaN and the two infinities.
SampleValues ==
    {NaN, Inf(1), Inf(0 - 1)}
        \cup {Num(v) : v \in {0, 16384, SafeCeiling, SafeCeiling + 1, FullScale, FullScale + 1}}
        \cup {Num(0 - v) : v \in {16384, FullScale, FullScale + 1}}

replace_nan(x) == IF x[1] = "nan" THEN Num(0) ELSE x

\* An infinity becomes the largest or smallest value of the format.
replace_inf(x) == IF x[1] = "inf" THEN Num(x[2] * FullScale) ELSE x

\* A sample at or near full scale, or beyond it, is brought to the ceiling.
attenuate(x) ==
    IF x[1] = "num" /\ x[2] > SafeCeiling THEN Num(SafeCeiling)
    ELSE IF x[1] = "num" /\ x[2] < 0 - SafeCeiling THEN Num(0 - SafeCeiling)
    ELSE x

\* Mutant: the infinities are replaced after the attenuation.
fix_sample_inf_last(x) == replace_inf(attenuate(replace_nan(x)))

\* The repair of one sample: NaN, then the infinities, then the attenuation.
fix_sample(x) == attenuate(replace_inf(replace_nan(x)))

fix_clipped_audio(a) == [k \in 1..Len(a) |-> fix_sample(a[k])]

InitRepair ==
    /\ samples \in UNION {[1..n -> SampleValues] : n \in 0..MaxWaveLen}
    /\ repaired = <<>>
    /\ wave_chunks = <<>>
    /\ crossfade_samples = 0
    /\ waveform = <<>>
    /\ apc = "samples"
    /\ TextStart
    /\ ApiStart
    /\ SynthStart
    /\ ClientStart
    /\ ReqStart
    /\ SrvStart
    /\ LifeStart
    /\ CliStart
    /\ ExpiryStart

\* repaired = fix_clipped_audio(samples)
Repair ==
    /\ apc = "samples"
    /\ repaired' = fix_clipped_audio(samples)
    /\ apc' = "repaired"
    /\ UNCHANGED <<wave_chunks, crossfade_samples, waveform, samples>>
    /\ UNCHANGED nonAudioVars

SpecRepair == InitRepair /\ [][Repair]_vars

\* C16: the array fix_clipped_audio returns has no NaN and no infinity,
\* and the magnitude of every sample is strictly below full scale.
C16_RepairedInRange ==
    apc = "repaired" =>
        /\ Len(repaired) = Len(samples)
        /\ \A k \in 1..Len(repaired) :
              /\ repaired[k][1] = "num"
              /\ repaired[k][2] < 32767
              /\ repaired[k][2] > 0 - 32767

\* An array with NaN, an infinity and a sample beyond full scale was
\* repaired.
C16_Witness ==
    /\ apc = "repaired"
    /\ \E k \in 1..Len(samples) : samples[k] = NaN
    /\ \E k \in 1..Len(samples) : samples[k][1] = "inf"
    /\ \E k \in 1..Len(samples) : samples[k][1] = "num" /\ samples[k][2] < 0 - 32767

----------------------------------------------------------------------------
(* Further claims about clean_text and chunk_text *)

\* The text has the character c.
has_char(t, c) == \E i \in 1..Len(t) : t[i] = c

\* C21: for a text with newlines clean_text appends a period to a
\* non-empty line exactly when the line lacks terminal punctuation: a
\* line that already ends in . ? or ! gets no added period.  The raw text
\* here has no period of its own, so every period of the result was
\* added, and none may stand directly after a question mark.
C21_PeriodOnlyWhereMissing ==
    (tpc = "cleaned" /\ has_char(text, "\n") /\ ~has_char(text, ".")) =>
        \A i \in 1..(Len(cleaned) - 1) :
            ~(cleaned[i] = "?" /\ cleaned[i + 1] = ".")

\* The chunks before the post-pass of chunk_text: the greedy packing.
packed(t, m) ==
    IF strip(t) = <<>> THEN <<>>
    ELSE pack_sentences(sentences_of(t, m), <<>>, <<>>, m)

\* C27: the short-chunk merge pass never changes its input: the list
\* chunk_text returns is the list the greedy packing made, because two
\* adjacent packed chunks joined by a space always exceed max_chars.
C27_MergeChangesNothing ==
    Chunked =>
        /\ chunks = packed(chunk_input, max_chars)
        /\ \A i \in 1..(Len(chunks) - 1) : ~merge_fits(chunks[i], chunks[i + 1])

\* A cleaned text was cut into two chunks of fewer than 4 words each, so
\* the merge pass tried both and the lengths alone kept them apart.
C27_Witness ==
    /\ tpc = "chunked_clean"
    /\ max_chars >= 3
    /\ Len(chunks) = 2
    /\ short_chunk(chunks[1])
    /\ short_chunk(chunks[2])

\* C30: for every raw input, the empty and the whitespace-only ones
\* included, and every max_chars, chunk_text(clean_text(x), max_chars)
\* returns at least one chunk, and no chunk is empty.
C30_CleanedTextHasChunks ==
    tpc = "chunked_clean" =>
        /\ chunks # <<>>
        /\ \A i \in 1..Len(chunks) : strip(chunks[i]) # <<>>

\* A whitespace-only input was cleaned and chunked with max_chars 0.
C30_Witness ==
    /\ tpc = "chunked_clean"
    /\ text # <<>>
    /\ strip(text) = <<>>
    /\ max_chars = 0

----------------------------------------------------------------------------
(* Further claims about the HTTP layer *)

\* Request r calls get_tts_engine in this step.
CallsGetEngine(r) == rpc[r] = "idle" /\ rpc'[r] # "idle"

\* C22: when constructing the engine fails inside get_tts_engine the call
\* raises RuntimeError and no engine is installed as the singleton, and
\* the next call attempts the construction again: a call made while no
\* engine is installed always runs the constructor, a failed constructor
\* always ends the call with the error and leaves _engine None.
C22_FailedInitRetried ==
    [][\A r \in Requests :
          CallsGetEngine(r) =>
              /\ (_engine = None) = (engine_ctor_calls' = engine_ctor_calls + 1)
              /\ (engine_ctor_failed' = engine_ctor_failed + 1) =
                     (outcome'[r] = "init_error" /\ rpc'[r] = "error")
              /\ outcome'[r] = "init_error" => _engine' = None
              /\ outcome'[r] # "init_error" =>
                     /\ engine_ctor_failed' = engine_ctor_failed
                     /\ _engine' # None]_vars

\* A get_tts_engine call failed in the constructor and a later call ran
\* the constructor again, with success.
C22_Witness ==
    \E r, q \in Requests :
        /\ outcome[r] = "init_error"
        /\ r \in pred[q]
        /\ engine_ctor_calls = 2
        /\ _engine = 2

\* C28: once all of a set of overlapping synthesize_async requests have
\* finished successfully, engine.config.speed is the speed the shared
\* engine had before the first of them began, whatever the interleaving.
\* No request had ended when another began, so the speed before the first
\* is the one the configuration was constructed with.
C28_SpeedAfterOverlap ==
    (\A r \in Requests :
        /\ rpc[r] \in Finished
        /\ outcome[r] = "ok"
        /\ pred[r] = {}) => speed = DefaultSpeed

----------------------------------------------------------------------------
(* One TTSApi used by one caller from its construction to its release     *)
(* (client.py): synthesize calls, with-blocks and cleanup() calls in any  *)
(* order.  Each method runs from its call to its return in one step.      *)

\* TTSApi.engine: self._engine after the property was read; id is the
\* instance TTSEngine(...) returns when it does not raise (ok).
engine_after_access(e, ok, id) ==
    IF e = None THEN (IF ok THEN id ELSE None) ELSE e

\* `if self._engine:` of __exit__ and of cleanup
calls_cleanup(e) == e # None

\* The calls of TTSEngine.cleanup after __exit__ or cleanup() has run.
count_cleanup(cc, e) ==
    IF calls_cleanup(e) THEN [cc EXCEPT ![e] = @ + 1] ELSE cc

\* self._engine after __exit__: the method does not assign it.
engine_after_exit(e) == e

\* Mutant: cleanup() does not reset self._engine.
engine_after_cleanup_kept(e) == e

\* self._engine after cleanup(): None, whether or not an engine was set.
engine_after_cleanup(e) == None

\* __enter__: `with api:` begins.
ApiEnter ==
    /\ life_ops < MaxLifeOps
    /\ ~in_with
    /\ in_with' = TRUE
    /\ last_op' = "enter"
    /\ life_ops' = life_ops + 1
    /\ UNCHANGED <<api_engine, core_ctor_calls, cleanup_calls, synth_log>>
    /\ UNCHANGED nonLifeVars

\* TTSApi.synthesize: the `engine` property builds the TTSEngine when none
\* is set, which may raise, and the synthesis runs on self._engine.
ApiSynthesize ==
    /\ life_ops < MaxLifeOps
    /\ api_engine = None => core_ctor_calls < MaxCoreCtor
    /\ \E ok \in BOOLEAN :
         LET e == engine_after_access(api_engine, ok, core_ctor_calls + 1) IN
         /\ api_engine' = e
         /\ core_ctor_calls' = IF api_engine = None THEN core_ctor_calls + 1
                               ELSE core_ctor_calls
         /\ IF e = None
            THEN /\ last_op' = "synthesize_error"
                 /\ UNCHANGED synth_log
            ELSE /\ last_op' = "synthesize"
                 /\ synth_log' = synth_log \cup {<<e, cleanup_calls[e]>>}
    /\ life_ops' = life_ops + 1
    /\ UNCHANGED <<in_with, cleanup_calls>>
    /\ UNCHANGED nonLifeVars

\* __exit__: the with-block is left.
ApiExit ==
    /\ life_ops < MaxLifeOps
    /\ in_with
    /\ in_with' = FALSE
    /\ cleanup_calls' = count_cleanup(cleanup_calls, api_engine)
    /\ api_engine' = engine_after_exit(api_engine)
    /\ last_op' = "exit"
    /\ life_ops' = life_ops + 1
    /\ UNCHANGED <<core_ctor_calls, synth_log>>
    /\ UNCHANGED nonLifeVars

\* TTSApi.cleanup
ApiCleanup ==
    /\ life_ops < MaxLifeOps
    /\ cleanup_calls' = count_cleanup(cleanup_calls, api_engine)
    /\ api_engine' = engine_after_cleanup(api_engine)
    /\ last_op' = "cleanup"
    /\ life_ops' = life_ops + 1
    /\ UNCHANGED <<in_with, core_ctor_calls, synth_log>>
    /\ UNCHANGED nonLifeVars

NextLifecycle == ApiEnter \/ ApiSynthesize \/ ApiExit \/ ApiCleanup

SpecLifecycle == Init /\ [][NextLifecycle]_vars

\* C23: leaving the context manager or calling cleanup() calls the
\* cleanup of the TTSApi's engine exactly once when the engine was
\* created, and neither builds an engine nor calls any cleanup when it was
\* not; the engine access that follows a cleanup() constructs a fresh
\* engine, one that no cleanup was called on.
C23_ReleaseCallsCleanupOnce ==
    [][/\ last_op' \in {"exit", "cleanup"} =>
              /\ core_ctor_calls' = core_ctor_calls
              /\ \A e \in 1..MaxCoreCtor :
                    cleanup_calls'[e] =
                        cleanup_calls[e] + (IF e = api_engine THEN 1 ELSE 0)
       /\ (last_op = "cleanup" /\ last_op' \in {"synthesize", "synthesize_error"}) =>
              /\ core_ctor_calls' = core_ctor_calls + 1
              /\ last_op' = "synthesize" =>
                    /\ api_engine' = core_ctor_calls'
                    /\ cleanup_calls[api_engine'] = 0
                    /\ \A p \in synth_log : p[1] # api_engine']_vars

\* An engine was built and released by cleanup(); the next synthesize
\* built a second engine inside a with-block, which was then left.
C23_Witness ==
    /\ last_op = "exit"
    /\ api_engine = 2
    /\ cleanup_calls[1] = 1
    /\ cleanup_calls[2] = 1
    /\ <<2, 0>> \in synth_log

\* C29: once a TTSApi has released its engine by cleanup() or by leaving
\* a with-block, no later synthesize runs on an engine whose cleanup was
\* already called, and no engine's cleanup is called a second time.
C29_NoUseAfterRelease ==
    /\ \A p \in synth_log : p[2] = 0
    /\ \A e \in 1..MaxCoreCtor : cleanup_calls[e] <= 1

----------------------------------------------------------------------------
(* The command line (cli.py).  A string is a sequence of characters; an   *)
(* option or setting is Absent (None) or a one-element tuple holding its  *)
(* string.  One pass of the interactive menu loop, with the prompts of    *)
(* the editor it calls, is one step.                                      *)

\* Python's truth value of an optional string: None and "" are false.
truthy(v) == v # Absent /\ v[1] # <<>>

\* str.lower() on the characters the confirmation can be typed with.
lower_char(c) ==
    CASE c = "Y" -> "y"
      [] c = "E" -> "e"
      [] c = "S" -> "s"
      [] c = "N" -> "n"
      [] c = "O" -> "o"
      [] OTHER -> c

lower(s) == [i \in 1..Len(s) |-> lower_char(s[i])]

\* main: the two tests on --reference-audio / --reference-text.
half_reference(a, t) ==
    \/ (truthy(a) /\ ~truthy(t))
    \/ (truthy(t) /\ ~truthy(a))

\* Mutant: confirm_and_synthesize does not compare the two references.
reference_mismatch_unchecked(a, t) == FALSE

\* confirm_and_synthesize: bool(reference_audio) != bool(reference_text)
reference_mismatch(a, t) == truthy(a) # truthy(t)

\* Mutant: any answer that begins with y confirms.
confirmed_by_y(line) ==
    LET confirm == lower(strip(line)) IN confirm # <<>> /\ confirm[1] = "y"

\* confirm_and_synthesize: input(...).strip().lower() == 'yes'
confirmed(line) == lower(strip(line)) = <<"y", "e", "s">>

\* Values of an option on the command line: not given, empty, a string.
OptionValues == {Absent, <<<<>>>>, <<<<"x">>>>}

\* The command lines with arguments.
ArgLines ==
    [text : {Absent, <<<<"h", "i">>>>}, output : {Absent, <<<<"o">>>>},
     reference_audio : OptionValues, reference_text : OptionValues]

\* get_default_settings; gender stands for the four voice settings and
\* speed (in tenths) for the numeric ones.
DefaultSettings ==
    [gender |-> <<"female">>, speed |-> 9,
     reference_audio |-> Absent, reference_text |-> Absent]

\* The bundled reference samples: the path of a sample and its text,
\* which the CSV file may leave empty.
ReferenceSamples ==
    {[path |-> <<<<"s", "1">>>>, text |-> <<<<"t", "1">>>>],
     [path |-> <<<<"s", "2">>>>, text |-> <<<<>>>>]}

\* The lines typed at the menu prompt.
MenuLines ==
    {<<"1">>, <<"2">>, <<"3">>, <<"7">>, <<" ", "7">>, <<"8">>, <<"7", "7">>, <<>>}

\* The lines typed at the confirmation prompt.
ConfirmLines ==
    {<<"y", "e", "s">>, <<" ", "Y", "E", "S", " ">>, <<"y">>, <<"n", "o">>, <<>>}

\* The lines typed at the prompts for a reference path and its text.
PathLines == {<<>>, <<" ">>, <<"r", " ">>}

\* A stripped line as the value of a setting.
as_value(line) == <<line>>

\* main without interactive mode: the validation, then TTSApi(config) and
\* synthesize_to_file, which may raise.
MainBatch ==
    /\ cli_pc = "start"
    /\ \E a \in ArgLines, ok \in BOOLEAN :
         /\ args' = a
         /\ IF ~truthy(a.text) \/ ~truthy(a.output)
               \/ half_reference(a.reference_audio, a.reference_text)
            THEN /\ cli_pc' = "rejected"
                 /\ UNCHANGED <<cli_synth, cli_api_ctor>>
            ELSE /\ cli_api_ctor' = cli_api_ctor + 1
                 /\ cli_synth' = cli_synth \cup
                        {[reference_audio |-> a.reference_audio,
                          reference_text |-> a.reference_text, ok |-> ok]}
                 /\ cli_pc' = IF ok THEN "exit_ok" ELSE "exit_err"
    /\ UNCHANGED <<settings, last_menu, menu_steps>>
    /\ UNCHANGED nonCliVars

\* run_interactive_mode up to the menu loop: the required inputs and the
\* default settings.
MainInteractive ==
    /\ cli_pc = "start"
    /\ settings' = DefaultSettings
    /\ cli_pc' = "menu"
    /\ UNCHANGED <<args, cli_synth, cli_api_ctor, last_menu, menu_steps>>
    /\ UNCHANGED nonCliVars

\* What stays as it is in a pass of the menu loop that edits settings.
MenuPass(line, result) ==
    /\ cli_pc = "menu"
    /\ menu_steps < MaxMenuSteps
    /\ menu_steps' = menu_steps + 1
    /\ last_menu' = [choice |-> line, confirm |-> <<>>, result |-> result]
    /\ UNCHANGED <<args, cli_pc, cli_synth, cli_api_ctor>>
    /\ UNCHANGED nonCliVars

\* Choice 1, edit_voice_selection: select_from_list returns one of the
\* choices or None.
MenuEditVoice ==
    \E line \in MenuLines, g \in {Absent, <<"female">>, <<"male">>} :
        /\ strip(line) = <<"1">>
        /\ settings' = [settings EXCEPT !.gender = g]
        /\ MenuPass(line, "edited")

\* edit_reference_audio, option 2: a path, then its text; an empty answer
\* leaves the setting as it is.
custom_reference(s, path, ref_text) ==
    IF strip(path) # <<>>
    THEN IF strip(ref_text) # <<>>
         THEN [s EXCEPT !.reference_audio = as_value(strip(path)),
                        !.reference_text = as_value(strip(ref_text))]
         ELSE [s EXCEPT !.reference_audio = as_value(strip(path))]
    ELSE s

\* Choice 2, edit_reference_audio: a bundled sample, a custom path, the
\* clearing of both settings, or nothing (the browser was cancelled, the
\* option was none of 0, 1, 2).
MenuEditReference ==
    \E line \in MenuLines :
        /\ strip(line) = <<"2">>
        /\ \/ \E selected \in ReferenceSamples :
                settings' = [settings EXCEPT !.reference_audio = selected.path,
                                             !.reference_text = selected.text]
           \/ \E path \in PathLines, ref_text \in PathLines :
                settings' = custom_reference(settings, path, ref_text)
           \/ settings' = [settings EXCEPT !.reference_audio = Absent,
                                           !.reference_text = Absent]
           \/ settings' = settings
        /\ MenuPass(line, "edited")

\* Choices 3 to 6, the numeric settings: the current value or a valid one.
MenuEditNumbers ==
    \E line \in MenuLines, v \in {9, 10} :
        /\ strip(line) = <<"3">>
        /\ settings' = [settings EXCEPT !.speed = v]
        /\ MenuPass(line, "edited")

\* Any other choice: the loop prints a message and shows the menu again.
MenuInvalid ==
    \E line \in MenuLines :
        /\ strip(line) \notin {<<"1">>, <<"2">>, <<"3">>, <<"7">>}
        /\ UNCHANGED settings
        /\ MenuPass(line, "invalid")

\* Choice 7, confirm_and_synthesize, and the break when it returns True.
MenuConfirm ==
    /\ cli_pc = "menu"
    /\ menu_steps < MaxMenuSteps
    /\ menu_steps' = menu_steps + 1
    /\ \E line \in MenuLines, answer \in ConfirmLines, ok \in BOOLEAN :
         /\ strip(line) = <<"7">>
         /\ IF reference_mismatch(settings.reference_audio, settings.reference_text)
            THEN /\ last_menu' = [choice |-> line, confirm |-> <<>>,
                                  result |-> "mismatch"]
                 /\ UNCHANGED <<cli_pc, cli_synth, cli_api_ctor>>
            ELSE IF ~confirmed(answer)
            THEN /\ last_menu' = [choice |-> line, confirm |-> answer,
                                  result |-> "declined"]
                 /\ UNCHANGED <<cli_pc, cli_synth, cli_api_ctor>>
            ELSE /\ cli_api_ctor' = cli_api_ctor + 1
                 /\ cli_synth' = cli_synth \cup
                        {[reference_audio |-> settings.reference_audio,
                          reference_text |-> settings.reference_text, ok |-> ok]}
                 /\ last_menu' = [choice |-> line, confirm |-> answer,
                                  result |-> IF ok THEN "ok" ELSE "failed"]
                 /\ cli_pc' = IF ok THEN "left" ELSE "menu"
    /\ UNCHANGED <<args, settings>>
    /\ UNCHANGED nonCliVars

NextCli ==
    \/ MainBatch
    \/ MainInteractive
    \/ MenuEditVoice
    \/ MenuEditReference
    \/ MenuEditNumbers
    \/ MenuInvalid
    \/ MenuConfirm

SpecCli == Init /\ [][NextCli]_vars

\* C24: in both modes of the command a synthesis is never started with
\* exactly one of reference audio and reference text set: the
\* non-interactive command rejects such arguments before it constructs
\* anything, and after any edits in the menu synthesize_to_file is reached
\* only with both set or both empty.
C24_NoHalfReference ==
    /\ \A c \in cli_synth : truthy(c.reference_audio) = truthy(c.reference_text)
    /\ (truthy(args.reference_audio) # truthy(args.reference_text)) =>
          /\ cli_pc = "rejected"
          /\ cli_api_ctor = 0
          /\ cli_synth = {}

\* In interactive mode a synthesis has failed, the user then set a
\* reference path without a text, and the next confirmation was refused.
C24_Witness ==
    /\ cli_pc = "menu"
    /\ cli_synth # {}
    /\ last_menu.result = "mismatch"
    /\ truthy(settings.reference_audio)
    /\ ~truthy(settings.reference_text)

\* Non-interactive arguments with a reference text and no reference audio
\* were rejected.
C24_BatchWitness ==
    /\ cli_pc = "rejected"
    /\ truthy(args.text) /\ truthy(args.output)
    /\ truthy(args.reference_text)
    /\ ~truthy(args.reference_audio)

----------------------------------------------------------------------------
(* The life of the output files (api/app.py): synthesize/file writes a    *)
(* file and caches its id, cleanup_old_files removes the files older than *)
(* FILE_LIFESPAN_SECONDS and runs only as the background task of a        *)
(* synthesize/download response.  Time is counted in ticks, LifespanTicks *)
(* of them are FILE_LIFESPAN_SECONDS.  A handler runs in one step here;   *)
(* which requests arrive, and when, is up to the clients.                 *)

\* os.path.getmtime and time.time read the same clock.
age(r) == clock - mtime[r]

\* cleanup_old_files: now - os.path.getmtime(file_path) > FILE_LIFESPAN
is_old(now, modified) == now - modified > LifespanTicks

\* Time passes.
Tick ==
    /\ clock < MaxClock
    /\ clock' = clock + 1
    /\ UNCHANGED <<mtime, cleanup_pending, removed, tmp_dir, _file_cache>>
    /\ UNCHANGED nonExpiryVars

\* POST /api/v1/synthesize/file with a synthesis that succeeds: the file
\* is written under a fresh id and the id is put in the file cache.
SynthesizeToFile(r) ==
    /\ r \notin _file_cache
    /\ tmp_dir' = tmp_dir \cup {out_file(r)}
    /\ mtime' = [mtime EXCEPT ![r] = clock]
    /\ _file_cache' = _file_cache \cup {r}
    /\ UNCHANGED <<clock, cleanup_pending, removed>>
    /\ UNCHANGED nonExpiryVars

\* POST /api/v1/synthesize/download: the response carries
\* BackgroundTask(cleanup_old_files, TMP_DIR).
SynthesizeAndDownload ==
    /\ ~cleanup_pending
    /\ cleanup_pending' = TRUE
    /\ UNCHANGED <<clock, mtime, removed, tmp_dir, _file_cache>>
    /\ UNCHANGED nonExpiryVars

\* cleanup_old_files, run by the framework after the response was sent.
CleanupTask ==
    /\ cleanup_pending
    /\ LET old == {r \in Requests :
                     out_file(r) \in tmp_dir /\ is_old(clock, mtime[r])}
       IN  /\ tmp_dir' = tmp_dir \ {out_file(r) : r \in old}
           /\ removed' = removed \cup {<<r, age(r)>> : r \in old}
    /\ cleanup_pending' = FALSE
    /\ UNCHANGED <<clock, mtime, _file_cache>>
    /\ UNCHANGED nonExpiryVars

\* GET /api/v1/download/{file_id}
ExpiryDownload ==
    /\ DownloadFile
    /\ UNCHANGED expiryVars

NextExpiry ==
    \/ Tick
    \/ \E r \in Requests : SynthesizeToFile(r)
    \/ SynthesizeAndDownload
    \/ CleanupTask
    \/ ExpiryDownload

\* Time passes and a scheduled background task is run; nothing makes a
\* client send a request.
SpecExpiry ==
    Init /\ [][NextExpiry]_vars /\ WF_vars(Tick) /\ WF_vars(CleanupTask)

NoYoungFileDeleted == \A p \in removed : p[2] > LifespanTicks

\* A file was removed by the cleanup task.
SomeFileRemoved == removed # {}

====
